---- MODULE Spec2Model ----
(***************************************************************************)
(* Trace-pattern evaluation engine of devmining_utilities (src/utils.py):  *)
(* reverse index, declarative constraints, sequence labellers and          *)
(* attribute labellers, each evaluated on one trace.                       *)
(*                                                                         *)
(* Strings are sequences of one-character strings, so that joining names   *)
(* with the delimiter and substring counting are computed, not assumed.    *)
(* An event is [name, attrs]: name is event["concept:name"], attrs is the  *)
(* rest of the event's dictionary.  Positions are Python's (0-based).      *)
(***************************************************************************)
EXTENDS Integers, Sequences, FiniteSets

\* ---------------------------------------------------------------- bounds
MaxTraceLen == 5

MaxAttrTraceLen == 2

MaxPatLen == 2

MaxCount == 2

\* ------------------------------------------------------------ input sets
SeqsUpTo(S, n) == UNION { [1..k -> S] : k \in 0..n }

\* Activity names; the name "CA" has the name "A" as a proper suffix, and it
\* is in no pattern.
Activities == { <<"A">>, <<"B">>, <<"C", "A">> }

PatternActivities == { <<"A">>, <<"B">> }

\* hack_delim, the unit separator U+241F, as one character
hack_delim == <<"US">>

\* Attribute values as the log reader delivers them: typed, with the text
\* that str() renders.
Values == { [kind |-> "str", text |-> "1"], [kind |-> "str", text |-> "2"],
            [kind |-> "int", text |-> "1"] }

AttrKeys == { "article", "points" }

ValuesOf(k) == IF k = "article" THEN Values ELSE { [kind |-> "str", text |-> "1"] }

\* The attribute dictionaries: a value for some of the keys
AttrMaps ==
  UNION { { f \in [D -> UNION { ValuesOf(k) : k \in D }] :
              \A k \in D : f[k] \in ValuesOf(k) } : D \in SUBSET AttrKeys }

\* ------------------------------------------------------------- utilities
Range(s) == { s[i] : i \in DOMAIN s }

EmptyMap == [x \in {} |-> x]

\* d[k] = v on a dictionary
Put(d, k, v) == [x \in (DOMAIN d) \cup {k} |-> IF x = k THEN v ELSE d[x]]

SetMax(S) == CHOOSE x \in S : \A y \in S : y <= x

SetMin(S) == CHOOSE x \in S : \A y \in S : x <= y

\* sorted(list(S)) for a set of integers
RECURSIVE sorted(_)
sorted(S) == IF S = {} THEN <<>> ELSE <<SetMin(S)>> \o sorted(S \ {SetMin(S)})

\* str(v)
str(v) == v.text

\* [event[name] for event in trace]
search_list_of(tr) == [i \in 1..Len(tr) |-> tr[i].name]

\* ------------------------------------------------------- string routines
\* delim.join(names)
RECURSIVE join(_, _)
join(delim, names) ==
  IF Len(names) = 0 THEN <<>>
  ELSE IF Len(names) = 1 THEN names[1]
  ELSE names[1] \o delim \o join(delim, Tail(names))

\* s[p:p+len(sub)] == sub, p 0-based
MatchesAt(s, sub, p) ==
  /\ p + Len(sub) <= Len(s)
  /\ \A j \in 1..Len(sub) : s[p + j] = sub[j]

\* s.find(sub, p): the lowest index >= p where sub occurs, -1 if none
find(s, sub, p) ==
  LET hits == { q \in p..Len(s) : MatchesAt(s, sub, q) }
  IN IF hits = {} THEN -1 ELSE SetMin(hits)

\* s.count(sub) from position p: occurrences found left to right, the search
\* resuming after the end of each occurrence; the empty string occurs between
\* all characters
RECURSIVE count_from(_, _, _)
count_from(s, sub, p) ==
  IF Len(sub) = 0 THEN Len(s) - p + 1
  ELSE LET q == find(s, sub, p)
       IN IF q = -1 THEN 0 ELSE 1 + count_from(s, sub, q + Len(sub))

str_count(s, sub) == count_from(s, sub, 0)

\* ---------------------------------------------------------- reverse index
RECURSIVE rev_index_upto(_, _)
rev_index_upto(tr, k) ==
  IF k = 0 THEN EmptyMap
  ELSE LET r == rev_index_upto(tr, k - 1)
           key == tr[k].name
           old == IF key \in DOMAIN r THEN r[key] ELSE <<>>
       IN Put(r, key, Append(old, k - 1))

create_trace_reverse_index(tr) == rev_index_upto(tr, Len(tr))

\* lst[-1], lst[0]
Last(lst) == lst[Len(lst)]

First(lst) == lst[1]

\* ------------------------------------------------ declarative constraints
check_response_constraint_first_a(rev, a, b) ==
  IF a \notin DOMAIN rev THEN 1
  ELSE IF b \notin DOMAIN rev THEN 0
  ELSE IF Last(rev[b]) > First(rev[a]) THEN 2 ELSE 0

check_response_constraint(rev, a, b) ==
  IF a \notin DOMAIN rev THEN 1
  ELSE IF b \notin DOMAIN rev THEN 0
  ELSE IF Last(rev[b]) > Last(rev[a]) THEN 2 ELSE 0

check_init_constraint(rev, a) ==
  IF a \notin DOMAIN rev THEN 0
  ELSE IF First(rev[a]) = 0 THEN 2 ELSE 0

check_precedence_constraint_lte(rev, a, b) ==
  IF b \notin DOMAIN rev THEN 1
  ELSE IF a \notin DOMAIN rev THEN 0
  ELSE IF First(rev[a]) <= First(rev[b]) THEN 2 ELSE 0

check_precedence_constraint(rev, a, b) ==
  IF b \notin DOMAIN rev THEN 1
  ELSE IF a \notin DOMAIN rev THEN 0
  ELSE IF First(rev[a]) < First(rev[b]) THEN 2 ELSE 0

check_existence_constraint(rev, a) ==
  IF a \notin DOMAIN rev THEN 0 ELSE 2

\* The dictionary after rev_trace[k] on a defaultdict(list): a missing key is
\* inserted with an empty list
getitem_index(rev, k) == IF k \in DOMAIN rev THEN rev ELSE Put(rev, k, <<>>)

\* The reverse index after each constraint has run on it: the keys the
\* function indexes, in the order it indexes them
response_index_unguarded(rev, a, b) ==
  getitem_index(getitem_index(rev, a), b)

response_index(rev, a, b) ==
  IF a \notin DOMAIN rev THEN rev
  ELSE IF b \notin DOMAIN rev THEN rev
  ELSE getitem_index(getitem_index(rev, a), b)

init_index(rev, a) ==
  IF a \notin DOMAIN rev THEN rev ELSE getitem_index(rev, a)

precedence_index(rev, a, b) ==
  IF b \notin DOMAIN rev THEN rev
  ELSE IF a \notin DOMAIN rev THEN rev
  ELSE getitem_index(getitem_index(rev, a), b)

existence_index(rev, a) == rev

\* ------------------------------------------------------ sequence labellers
\* search_string.count(search_seq) advancing by one character after each
\* occurrence instead of past its end
check_sequence_strict_order_overlapping(tr, seq, cnt) ==
  IF Len(tr) < cnt THEN 0
  ELSE LET search_string == join(hack_delim, search_list_of(tr))
           search_seq == join(hack_delim, seq)
           seq_count == Cardinality({ p \in 0..Len(search_string) :
                                       MatchesAt(search_string, search_seq, p) })
       IN IF seq_count >= cnt THEN 2 ELSE 0

check_sequence_strict_order(tr, seq, cnt) ==
  IF Len(tr) < cnt THEN 0
  ELSE LET search_string == join(hack_delim, search_list_of(tr))
           search_seq == join(hack_delim, seq)
           seq_count == str_count(search_string, search_seq)
       IN IF seq_count >= cnt THEN 2 ELSE 0

\* lst.remove(x): the list without the first occurrence of x (x is in lst)
remove(lst, x) ==
  LET p == SetMin({ j \in DOMAIN lst : lst[j] = x })
  IN SubSeq(lst, 1, p - 1) \o SubSeq(lst, p + 1, Len(lst))

\* The state of an interleaved scan before its first event
scan_init(seq) == [copy_seq |-> seq, count_subsequences |-> 0]

\* One iteration of the loop of check_sequence_nonstrict_order_interleaved
nonstrict_interleaved_step_noreset(st, name, seq) ==
  IF name \notin Range(seq) THEN st
  ELSE IF name \notin Range(st.copy_seq) THEN st
  ELSE LET c == remove(st.copy_seq, name)
       IN IF Len(c) = 0
          THEN [copy_seq |-> c,
                count_subsequences |-> st.count_subsequences + 1]
          ELSE [copy_seq |-> c, count_subsequences |-> st.count_subsequences]

\* A name that is no longer in copy_seq starts the occurrence over
nonstrict_interleaved_step_restart(st, name, seq) ==
  IF name \notin Range(seq) THEN st
  ELSE IF name \notin Range(st.copy_seq)
       THEN [copy_seq |-> seq, count_subsequences |-> st.count_subsequences]
  ELSE LET c == remove(st.copy_seq, name)
       IN IF Len(c) = 0
          THEN [copy_seq |-> seq,
                count_subsequences |-> st.count_subsequences + 1]
          ELSE [copy_seq |-> c, count_subsequences |-> st.count_subsequences]

nonstrict_interleaved_step(st, name, seq) ==
  IF name \notin Range(seq) THEN st
  ELSE IF name \notin Range(st.copy_seq) THEN st
  ELSE LET c == remove(st.copy_seq, name)
       IN IF Len(c) = 0
          THEN [copy_seq |-> seq,
                count_subsequences |-> st.count_subsequences + 1]
          ELSE [copy_seq |-> c, count_subsequences |-> st.count_subsequences]

\* One iteration of the loop of check_sequence_strict_order_interleaved
strict_interleaved_step_restart(st, name, seq) ==
  IF name \notin Range(seq) THEN st
  ELSE LET c == IF name = st.copy_seq[1] THEN Tail(st.copy_seq) ELSE seq
       IN IF Len(c) = 0
          THEN [copy_seq |-> seq,
                count_subsequences |-> st.count_subsequences + 1]
          ELSE [copy_seq |-> c, count_subsequences |-> st.count_subsequences]

strict_interleaved_step(st, name, seq) ==
  IF name \notin Range(seq) THEN st
  ELSE LET c == IF name = st.copy_seq[1] THEN Tail(st.copy_seq)
                ELSE st.copy_seq
       IN IF Len(c) = 0
          THEN [copy_seq |-> seq,
                count_subsequences |-> st.count_subsequences + 1]
          ELSE [copy_seq |-> c, count_subsequences |-> st.count_subsequences]

\* The scans' state after the first k events of the trace
RECURSIVE nonstrict_interleaved_scan(_, _, _)
nonstrict_interleaved_scan(tr, seq, k) ==
  IF k = 0 THEN scan_init(seq)
  ELSE nonstrict_interleaved_step(nonstrict_interleaved_scan(tr, seq, k - 1),
                                  tr[k].name, seq)

RECURSIVE strict_interleaved_scan(_, _, _)
strict_interleaved_scan(tr, seq, k) ==
  IF k = 0 THEN scan_init(seq)
  ELSE strict_interleaved_step(strict_interleaved_scan(tr, seq, k - 1),
                               tr[k].name, seq)

check_sequence_nonstrict_order_interleaved(tr, seq, cnt) ==
  IF nonstrict_interleaved_scan(tr, seq, Len(tr)).count_subsequences >= cnt
  THEN 2 ELSE 0

check_sequence_strict_order_interleaved(tr, seq, cnt) ==
  IF strict_interleaved_scan(tr, seq, Len(tr)).count_subsequences >= cnt
  THEN 2 ELSE 0

\* set(itertools.permutations(sequence)): the tested permutations
permutations(seq) ==
  LET m == Len(seq)
      bij == { p \in [1..m -> 1..m] : \A x, y \in 1..m : p[x] = p[y] => x = y }
  IN { [j \in 1..m |-> seq[p[j]]] : p \in bij }

\* search_list[i : i + m], i 0-based and the slice within the list
slice(lst, i, m) == [j \in 1..m |-> lst[i + j]]

\* The start indices check_sequence_nonstrict_order finds:
\* i in range(len(search_list) - len(sequence)) whose slice is a permutation
found_indices_of(tr, seq) ==
  LET search_list == search_list_of(tr)
      m == Len(seq)
  IN { i \in 0..(Len(search_list) - m - 1) :
         slice(search_list, i, m) \in permutations(seq) }

\* --------------------------------------------------- attribute labellers
\* Python's ==, on typed values
PyEq(v, w) == v.kind = w.kind /\ v.text = w.text

StrVal(t) == [kind |-> "str", text |-> t]

check_trace_attribute(attrs, dict) ==
  IF \A k \in DOMAIN dict :
       k \in DOMAIN attrs /\ PyEq(attrs[k], StrVal(str(dict[k])))
  THEN 2 ELSE 0

\* event_attributes after the first n events, a later event overwriting
collect_event_attributes_last(tr, keys, n) ==
  LET carriers(k) == { j \in 1..n : k \in DOMAIN tr[j].attrs }
  IN [k \in { x \in keys : carriers(x) # {} } |->
        StrVal(str(tr[SetMax(carriers(k))].attrs[k]))]

\* event_attributes after the first n events of the trace
RECURSIVE collect_event_attributes(_, _, _)
collect_event_attributes(tr, keys, n) ==
  IF n = 0 THEN EmptyMap
  ELSE LET ea == collect_event_attributes(tr, keys, n - 1)
           event == tr[n].attrs
           fresh == { k \in keys : k \in DOMAIN event /\ k \notin DOMAIN ea }
       IN [k \in (DOMAIN ea) \cup fresh |->
             IF k \in DOMAIN ea THEN ea[k] ELSE StrVal(str(event[k]))]

check_trace_event_attributes(tr, dict) ==
  LET event_attributes == collect_event_attributes(tr, DOMAIN dict, Len(tr))
  IN IF \A k \in DOMAIN dict :
          k \in DOMAIN event_attributes /\ PyEq(event_attributes[k], dict[k])
     THEN 2 ELSE 0

\* ----------------------------------------------------------------- state
VARIABLES
  trace,               \* the events of the trace under evaluation
  trace_attributes,    \* trace.attributes
  rev_trace,           \* the trace's reverse index
  pc,                  \* "new", "idle", "filter" (inside the filter loop), "returned"
  op,                  \* the labeller called last
  arg_a, arg_b,        \* activity arguments of a declarative constraint
  arg_sequence,        \* sequence argument of a sequence labeller
  arg_count,           \* count argument of a sequence labeller
  arg_dict,            \* attribute_value_dict of an attribute labeller
  result,              \* the value returned
  found_indices,       \* locals of check_sequence_nonstrict_order
  filtered_indices,
  next_min_index,
  loop_i

vars == << trace, trace_attributes, rev_trace, pc, op, arg_a, arg_b,
           arg_sequence, arg_count, arg_dict, result, found_indices,
           filtered_indices, next_min_index, loop_i >>

args == << arg_a, arg_b, arg_sequence, arg_count, arg_dict >>

locals == << found_indices, filtered_indices, next_min_index, loop_i >>

NoName == <<>>

\* result before a labeller has returned
NoResult == 0 - 1

\* Traces of events that carry a name only
NameTraces ==
  { [j \in DOMAIN names |-> [name |-> names[j], attrs |-> EmptyMap]] :
      names \in SeqsUpTo(Activities, MaxTraceLen) }

\* Traces of events that carry attributes
AttrTraces ==
  SeqsUpTo({ [name |-> <<"A">>, attrs |-> f] : f \in AttrMaps },
           MaxAttrTraceLen)

Patterns == SeqsUpTo(PatternActivities, MaxPatLen)

Counts == 1..MaxCount

RuleDicts == AttrMaps

\* Three families of inputs: traces of named events, traces of events that
\* carry attributes, and a one-event trace under every trace-level attribute
\* map
Init ==
  /\ \/ trace \in NameTraces /\ trace_attributes = EmptyMap
     \/ trace \in AttrTraces /\ trace_attributes = EmptyMap
     \/ /\ trace = << [name |-> <<"A">>, attrs |-> EmptyMap] >>
        /\ trace_attributes \in AttrMaps
  /\ rev_trace = EmptyMap
  /\ pc = "new"
  /\ op = "none"
  /\ arg_a = NoName /\ arg_b = NoName
  /\ arg_sequence = <<>> /\ arg_count = 0 /\ arg_dict = EmptyMap
  /\ result = NoResult
  /\ found_indices = <<>> /\ filtered_indices = <<>>
  /\ next_min_index = 0 /\ loop_i = 0

\* A call that returns at once
Return(o, a, b, seq, cnt, dict, res) ==
  /\ pc = "idle"
  /\ pc' = "returned"
  /\ op' = o
  /\ arg_a' = a /\ arg_b' = b
  /\ arg_sequence' = seq /\ arg_count' = cnt /\ arg_dict' = dict
  /\ result' = res
  /\ UNCHANGED << trace, trace_attributes, rev_trace, locals >>

\* A declarative constraint returns; rev is the reverse index it leaves
ReturnConstraint(o, a, b, res, rev) ==
  /\ pc = "idle"
  /\ pc' = "returned"
  /\ op' = o
  /\ arg_a' = a /\ arg_b' = b
  /\ arg_sequence' = <<>> /\ arg_count' = 0 /\ arg_dict' = EmptyMap
  /\ result' = res
  /\ rev_trace' = rev
  /\ UNCHANGED << trace, trace_attributes, locals >>

\* rev_trace = create_trace_reverse_index(trace)
CreateTraceReverseIndex ==
  /\ pc = "new"
  /\ rev_trace' = create_trace_reverse_index(trace)
  /\ pc' = "idle"
  /\ UNCHANGED << trace, trace_attributes, op, args, result, locals >>

CheckResponseConstraint ==
  \E a, b \in Activities :
    ReturnConstraint("check_response_constraint", a, b,
                     check_response_constraint(rev_trace, a, b),
                     response_index(rev_trace, a, b))

CheckInitConstraint ==
  \E a \in Activities :
    ReturnConstraint("check_init_constraint", a, NoName,
                     check_init_constraint(rev_trace, a),
                     init_index(rev_trace, a))

CheckPrecedenceConstraint ==
  \E a, b \in Activities :
    ReturnConstraint("check_precedence_constraint", a, b,
                     check_precedence_constraint(rev_trace, a, b),
                     precedence_index(rev_trace, a, b))

CheckExistenceConstraint ==
  \E a \in Activities :
    ReturnConstraint("check_existence_constraint", a, NoName,
                     check_existence_constraint(rev_trace, a),
                     existence_index(rev_trace, a))

CheckSequenceStrictOrder ==
  \E seq \in Patterns, cnt \in Counts :
    Return("check_sequence_strict_order", NoName, NoName, seq, cnt, EmptyMap,
           check_sequence_strict_order(trace, seq, cnt))

CheckSequenceNonstrictOrderInterleaved ==
  \E seq \in Patterns, cnt \in Counts :
    Return("check_sequence_nonstrict_order_interleaved", NoName, NoName, seq,
           cnt, EmptyMap,
           check_sequence_nonstrict_order_interleaved(trace, seq, cnt))

CheckSequenceStrictOrderInterleaved ==
  \E seq \in Patterns, cnt \in Counts :
    Return("check_sequence_strict_order_interleaved", NoName, NoName, seq,
           cnt, EmptyMap,
           check_sequence_strict_order_interleaved(trace, seq, cnt))

CheckTraceAttribute ==
  \E dict \in RuleDicts :
    Return("check_trace_attribute", NoName, NoName, <<>>, 0, dict,
           check_trace_attribute(trace_attributes, dict))

CheckTraceEventAttributes ==
  \E dict \in RuleDicts :
    Return("check_trace_event_attributes", NoName, NoName, <<>>, 0, dict,
           check_trace_event_attributes(trace, dict))

\* check_sequence_nonstrict_order up to the filter loop: the two early
\* returns, the search, and the loop's initialisation
CheckSequenceNonstrictOrder ==
  \E seq \in Patterns, cnt \in Counts :
    LET found == found_indices_of(trace, seq)
    IN /\ pc = "idle"
       /\ op' = "check_sequence_nonstrict_order"
       /\ arg_a' = NoName /\ arg_b' = NoName
       /\ arg_sequence' = seq /\ arg_count' = cnt /\ arg_dict' = EmptyMap
       /\ IF Len(trace) < cnt \/ Cardinality(found) < cnt
          THEN /\ pc' = "returned"
               /\ result' = 0
               /\ found_indices' = <<>> /\ filtered_indices' = <<>>
               /\ next_min_index' = 0 /\ loop_i' = 0
          ELSE /\ pc' = "filter"
               /\ result' = NoResult
               /\ found_indices' = sorted(found)
               /\ filtered_indices' = << SetMin(found) >>
               /\ next_min_index' = SetMin(found) + Len(seq)
               /\ loop_i' = 1
       /\ UNCHANGED << trace, trace_attributes, rev_trace >>

\* The list filtered_indices and the bound next_min_index after looking at
\* next_ind
filter_keep_short_gap(filtered, min_index, next_ind, m) ==
  IF next_ind >= min_index - 1
  THEN << Append(filtered, next_ind), next_ind + m >>
  ELSE << filtered, min_index >>

filter_keep(filtered, min_index, next_ind, m) ==
  IF next_ind >= min_index
  THEN << Append(filtered, next_ind), next_ind + m >>
  ELSE << filtered, min_index >>

\* One iteration of the filter loop
FilterStep ==
  /\ pc = "filter"
  /\ loop_i < Len(found_indices)
  /\ LET kept == filter_keep(filtered_indices, next_min_index,
                             found_indices[loop_i + 1], Len(arg_sequence))
     IN /\ filtered_indices' = kept[1]
        /\ next_min_index' = kept[2]
  /\ loop_i' = loop_i + 1
  /\ UNCHANGED << trace, trace_attributes, rev_trace, pc, op, args, result,
                  found_indices >>

\* The loop is over: compare and return
FilterReturn ==
  /\ pc = "filter"
  /\ loop_i >= Len(found_indices)
  /\ result' = IF Len(filtered_indices) >= arg_count THEN 2 ELSE 0
  /\ pc' = "returned"
  /\ UNCHANGED << trace, trace_attributes, rev_trace, op, args, locals >>

\* The caller takes the verdict; the next rule is evaluated on the same trace
NextRule ==
  /\ pc = "returned"
  /\ pc' = "idle"
  /\ op' = "none"
  /\ arg_a' = NoName /\ arg_b' = NoName
  /\ arg_sequence' = <<>> /\ arg_count' = 0 /\ arg_dict' = EmptyMap
  /\ result' = NoResult
  /\ found_indices' = <<>> /\ filtered_indices' = <<>>
  /\ next_min_index' = 0 /\ loop_i' = 0
  /\ UNCHANGED << trace, trace_attributes, rev_trace >>

Next ==
  \/ CreateTraceReverseIndex
  \/ CheckResponseConstraint
  \/ CheckInitConstraint
  \/ CheckPrecedenceConstraint
  \/ CheckExistenceConstraint
  \/ CheckSequenceStrictOrder
  \/ CheckSequenceNonstrictOrderInterleaved
  \/ CheckSequenceStrictOrderInterleaved
  \/ CheckSequenceNonstrictOrder
  \/ FilterStep
  \/ FilterReturn
  \/ CheckTraceAttribute
  \/ CheckTraceEventAttributes
  \/ NextRule

Spec == Init /\ [][Next]_vars

\* ---------------------------------------------------- what the claims use
Returned(o) == pc = "returned" /\ op = o

Names(tr) == search_list_of(tr)

\* The positions (0-based) of activity x in the trace
Positions(tr, x) == { p \in 0..(Len(tr) - 1) : tr[p + 1].name = x }

Satisfied == 2

VacuouslySatisfied == 1

Unsatisfiable == 0

\* C1: Response(a, b) on the reverse index of the trace is VacuouslySatisfied
\* when a never occurs, Unsatisfiable when a occurs and b does not, and
\* otherwise Satisfied exactly when the last b is after the last a; so
\* [A,X,B,Y] gives 2, [B,A] gives 0 and [] gives 1 for Response(A, B).
C1_Response ==
  Returned("check_response_constraint") =>
    LET pa == Positions(trace, arg_a)
        pb == Positions(trace, arg_b)
    IN /\ pa = {} => result = VacuouslySatisfied
       /\ pa # {} /\ pb = {} => result = Unsatisfiable
       /\ pa # {} /\ pb # {} =>
            result = IF SetMax(pb) > SetMax(pa) THEN Satisfied ELSE Unsatisfiable
       /\ arg_a = <<"A">> /\ arg_b = <<"B">> =>
            /\ Names(trace) = << <<"A">>, <<"C", "A">>, <<"B">>, <<"C", "A">> >>
                 => result = 2
            /\ Names(trace) = << <<"B">>, <<"A">> >> => result = 0
            /\ Names(trace) = <<>> => result = 1

\* Response(A, B) has returned Satisfied on a trace where an A comes after a
\* B and other events are in between
C1_Witness ==
  /\ Returned("check_response_constraint")
  /\ arg_a = <<"A">> /\ arg_b = <<"B">>
  /\ Names(trace) = << <<"B">>, <<"A">>, <<"C", "A">>, <<"B">>, <<"C", "A">> >>
  /\ result = Satisfied

\* C8: Precedence(a, b) on the reverse index of the trace is
\* VacuouslySatisfied when b never occurs, Unsatisfiable when b occurs and a
\* does not, and otherwise Satisfied exactly when the first a is before the
\* first b; it is never Satisfied when a does not occur.
C8_Precedence ==
  Returned("check_precedence_constraint") =>
    LET pa == Positions(trace, arg_a)
        pb == Positions(trace, arg_b)
    IN /\ pb = {} => result = VacuouslySatisfied
       /\ pb # {} /\ pa = {} => result = Unsatisfiable
       /\ pa # {} /\ pb # {} =>
            result = IF SetMin(pa) < SetMin(pb) THEN Satisfied ELSE Unsatisfiable
       /\ pa = {} => result # Satisfied

\* Precedence(A, B) has returned Unsatisfiable on a trace where both occur,
\* the first B before the first A
C8_Witness ==
  /\ Returned("check_precedence_constraint")
  /\ arg_a = <<"A">> /\ arg_b = <<"B">>
  /\ Positions(trace, arg_a) # {} /\ Positions(trace, arg_b) # {}
  /\ SetMin(Positions(trace, arg_b)) < SetMin(Positions(trace, arg_a))
  /\ result = Unsatisfiable

\* The pattern k times in a row
Repeat(pat, k) == [j \in 1..(k * Len(pat)) |-> pat[((j - 1) % Len(pat)) + 1]]

\* The names at the positions S (1-based) of the trace, in trace order
NamesAt(tr, S) == LET idx == sorted(S) IN [j \in 1..Len(idx) |-> tr[idx[j]].name]

\* The trace holds k occurrences of the pattern as in-order subsequences, each
\* finished before the next starts, other events in between
HasOccurrences(tr, pat, k) ==
  \E S \in SUBSET (1..Len(tr)) :
    /\ Cardinality(S) = k * Len(pat)
    /\ NamesAt(tr, S) = Repeat(pat, k)

\* C2: for a non-empty pattern and count >= 1 the strict interleaved labeller
\* returns Satisfied iff the trace holds at least count non-overlapping
\* in-order occurrences of the pattern, and Unsatisfiable otherwise;
\* [A,B,C,A,B] with pattern [A,B] and count 2 is Satisfied.
C2_StrictInterleaved ==
  Returned("check_sequence_strict_order_interleaved") /\ arg_sequence # <<>> =>
    /\ result = IF HasOccurrences(trace, arg_sequence, arg_count)
                THEN Satisfied ELSE Unsatisfiable
    /\ ( /\ Names(trace) = << <<"A">>, <<"B">>, <<"C", "A">>, <<"A">>, <<"B">> >>
         /\ arg_sequence = << <<"A">>, <<"B">> >>
         /\ arg_count = 2 ) => result = Satisfied

\* The scenario of the claim has been evaluated
C2_Witness ==
  /\ Returned("check_sequence_strict_order_interleaved")
  /\ Names(trace) = << <<"A">>, <<"B">>, <<"C", "A">>, <<"A">>, <<"B">> >>
  /\ arg_sequence = << <<"A">>, <<"B">> >>
  /\ arg_count = 2
  /\ result = Satisfied

\* The windows are pairwise disjoint and in ascending order
NonOverlapping(starts, m) ==
  /\ \A j \in 1..(Len(starts) - 1) :
       starts[j] < starts[j + 1] /\ starts[j + 1] - starts[j] >= m
  /\ \A j, l \in DOMAIN starts :
       j # l => (starts[j]..(starts[j] + m - 1)) \cap
                (starts[l]..(starts[l] + m - 1)) = {}

\* How many windows of length m a left-to-right greedy choice takes among
\* the start positions S: the earliest, then the earliest that starts at or
\* after the end of the window taken last
RECURSIVE GreedyCount(_, _)
GreedyCount(S, m) ==
  IF S = {} THEN 0
  ELSE LET x == SetMin(S)
       IN 1 + GreedyCount({ y \in S : y > x /\ y >= x + m }, m)

\* C5: at every step of the filter loop of check_sequence_nonstrict_order and
\* at its end, the selected start indices are strictly ascending, consecutive
\* ones differ by at least the pattern length (no two selected windows share
\* a position), and there are no more of them than a left-to-right greedy
\* choice of non-overlapping windows takes among the found positions.
C5_FilterLoop ==
  (pc = "filter" \/ Returned("check_sequence_nonstrict_order")) =>
    /\ NonOverlapping(filtered_indices, Len(arg_sequence))
    /\ Len(filtered_indices) <= GreedyCount(Range(found_indices), Len(arg_sequence))
    /\ Range(filtered_indices) \subseteq Range(found_indices)

\* The loop has selected two windows and has passed over one that overlaps
C5_Witness ==
  /\ pc = "filter"
  /\ Len(arg_sequence) = 2
  /\ Len(filtered_indices) = 2
  /\ \E p \in Range(found_indices) :
       p \notin Range(filtered_indices) /\ p < filtered_indices[2]

\* The events of the trace whose name is in the pattern, in order
RECURSIVE Projection(_, _)
Projection(names, acts) ==
  IF names = <<>> THEN <<>>
  ELSE IF Head(names) \in acts
       THEN << Head(names) >> \o Projection(Tail(names), acts)
       ELSE Projection(Tail(names), acts)

\* The pattern events of the trace are the pattern repeated k times
IsRepetition(tr, pat, k) == Projection(Names(tr), Range(pat)) = Repeat(pat, k)

Interleaved ==
  { "check_sequence_nonstrict_order_interleaved",
    "check_sequence_strict_order_interleaved" }

\* C6: for a non-empty pattern and a trace whose pattern events are the
\* pattern repeated k times in order, the strict and the non-strict
\* interleaved labeller return the same verdict, Satisfied iff k >= count,
\* whatever other events are interspersed.
C6_InterleavedAgree ==
  pc = "returned" /\ op \in Interleaved /\ arg_sequence # <<>> =>
    \A k \in 0..Len(trace) :
      IsRepetition(trace, arg_sequence, k) =>
        /\ result = IF k >= arg_count THEN Satisfied ELSE Unsatisfiable
        /\ result = check_sequence_strict_order_interleaved(trace, arg_sequence, arg_count)
        /\ result = check_sequence_nonstrict_order_interleaved(trace, arg_sequence, arg_count)

\* The non-strict labeller has returned on a trace with the pattern twice
\* and another event in between
C6_Witness ==
  /\ Returned("check_sequence_nonstrict_order_interleaved")
  /\ Len(arg_sequence) = 2
  /\ IsRepetition(trace, arg_sequence, 2)
  /\ Len(trace) > 4
  /\ arg_count = 2
  /\ result = Satisfied

\* The events (1-based) that carry key k
Carriers(tr, k) == { j \in DOMAIN tr : k \in DOMAIN tr[j].attrs }

FirstValue(tr, k) == tr[SetMin(Carriers(tr, k))].attrs[k]

\* C7: for a non-empty rule of string values, check_trace_event_attributes
\* returns Satisfied iff for every requested key some event carries it and
\* the value of the first carrier, as a string, is the expected one; values
\* of later carriers never change the verdict.
C7_FirstCarrier ==
  /\ Returned("check_trace_event_attributes")
  /\ arg_dict # EmptyMap
  /\ \A k \in DOMAIN arg_dict : arg_dict[k].kind = "str"
  => result = IF \A k \in DOMAIN arg_dict :
                   /\ Carriers(trace, k) # {}
                   /\ str(FirstValue(trace, k)) = arg_dict[k].text
                THEN Satisfied ELSE Unsatisfiable

\* Unsatisfiable although a later event carries the expected value
C7_Witness ==
  /\ Returned("check_trace_event_attributes")
  /\ DOMAIN arg_dict = { "article" }
  /\ arg_dict["article"] = StrVal("1")
  /\ \E j \in Carriers(trace, "article") : trace[j].attrs["article"] = StrVal("1")
  /\ FirstValue(trace, "article") = StrVal("2")
  /\ result = Unsatisfiable

\* The start positions (0-based) where the pattern is in the trace, name by
\* name
ExactMatches(tr, pat) ==
  { p \in 0..(Len(tr) - Len(pat)) : slice(Names(tr), p, Len(pat)) = pat }

\* C3: with count 1 and a non-empty pattern, check_sequence_strict_order
\* returns Satisfied only if at some position the events' names equal the
\* pattern's names one by one, whatever strings the names are.
C3_ExactNames ==
  /\ Returned("check_sequence_strict_order")
  /\ arg_sequence # <<>>
  /\ arg_count = 1
  /\ result = Satisfied
  => ExactMatches(trace, arg_sequence) # {}

\* How often x is in the list
Occurrences(lst, x) == Cardinality({ j \in DOMAIN lst : lst[j] = x })

SameMultiset(l1, l2) ==
  /\ Len(l1) = Len(l2)
  /\ \A x \in Range(l1) \cup Range(l2) : Occurrences(l1, x) = Occurrences(l2, x)

\* Every start position 0..n-m whose window has the pattern's multiset
AllWindows(tr, pat) ==
  { p \in 0..(Len(tr) - Len(pat)) :
      SameMultiset(slice(Names(tr), p, Len(pat)), pat) }

\* C4: for a trace of length >= count and a non-empty pattern,
\* check_sequence_nonstrict_order returns Satisfied iff the greedy
\* earliest-first choice of non-overlapping windows among all the start
\* positions 0..n-m, the last window included, takes at least count windows.
C4_AllWindows ==
  /\ Returned("check_sequence_nonstrict_order")
  /\ Len(trace) >= arg_count
  /\ arg_sequence # <<>>
  => result = IF GreedyCount(AllWindows(trace, arg_sequence), Len(arg_sequence))
                   >= arg_count
              THEN Satisfied ELSE Unsatisfiable

SequenceLabellers ==
  { "check_sequence_strict_order", "check_sequence_strict_order_interleaved",
    "check_sequence_nonstrict_order_interleaved", "check_sequence_nonstrict_order" }

AttributeLabellers == { "check_trace_attribute", "check_trace_event_attributes" }

\* C9: a sequence labeller called with an empty pattern, or an attribute
\* labeller called with an empty rule, never returns a verdict.
C9_ConfigurationError ==
  ~ /\ pc = "returned"
    /\ \/ op \in SequenceLabellers /\ arg_sequence = <<>>
       \/ op \in AttributeLabellers /\ arg_dict = EmptyMap
    /\ result \in { Unsatisfiable, VacuouslySatisfied, Satisfied }

\* s has sub in it
Contains(s, sub) == \E p \in 0..Len(s) : MatchesAt(s, sub, p)

\* No name has another name or the separator in it
Atomic(names) ==
  /\ \A x, y \in names : x # y => ~ Contains(y, x)
  /\ \A x \in names : ~ Contains(x, hack_delim)

\* The most occurrences of the pattern no two of which share an event
MaxDisjoint(tr, pat) ==
  LET sets == { S \in SUBSET ExactMatches(tr, pat) :
                  \A x, y \in S : x < y => y - x >= Len(pat) }
  IN SetMax({ Cardinality(S) : S \in sets })

\* C10 as stated: for atomic names and a trace of length >= count,
\* check_sequence_strict_order returns Satisfied iff the number of start
\* positions where the pattern occurs, overlapping occurrences counted, is at
\* least count.
C10_Overlapping ==
  /\ Returned("check_sequence_strict_order")
  /\ Len(trace) >= arg_count
  /\ Atomic(Range(Names(trace)) \cup Range(arg_sequence))
  => result = IF Cardinality(ExactMatches(trace, arg_sequence)) >= arg_count
              THEN Satisfied ELSE Unsatisfiable

\* C10, amended: for atomic names and a trace of length >= count,
\* check_sequence_strict_order returns Satisfied iff the number of occurrences
\* of the pattern no two of which overlap is at least count; [A,A,A] with
\* pattern [A,A] and count 2 is Unsatisfiable.
C10_NonOverlapping ==
  /\ Returned("check_sequence_strict_order")
  /\ Len(trace) >= arg_count
  /\ Atomic(Range(Names(trace)) \cup Range(arg_sequence))
  => /\ result = IF MaxDisjoint(trace, arg_sequence) >= arg_count
                 THEN Satisfied ELSE Unsatisfiable
     /\ ( /\ Names(trace) = << <<"A">>, <<"A">>, <<"A">> >>
          /\ arg_sequence = << <<"A">>, <<"A">> >>
          /\ arg_count = 2 ) => result = Unsatisfiable

\* Two occurrences that overlap, and count 2
C10_Witness ==
  /\ Returned("check_sequence_strict_order")
  /\ Names(trace) = << <<"A">>, <<"A">>, <<"A">> >>
  /\ arg_sequence = << <<"A">>, <<"A">> >>
  /\ arg_count = 2
  /\ result = Unsatisfiable

Constraints ==
  { "check_existence_constraint", "check_init_constraint",
    "check_response_constraint", "check_precedence_constraint" }

\* The verdict of the constraint called last, had it run on the index rev
VerdictOn(rev) ==
  IF op = "check_existence_constraint" THEN check_existence_constraint(rev, arg_a)
  ELSE IF op = "check_init_constraint" THEN check_init_constraint(rev, arg_a)
  ELSE IF op = "check_response_constraint"
       THEN check_response_constraint(rev, arg_a, arg_b)
  ELSE check_precedence_constraint(rev, arg_a, arg_b)

\* C11: after any sequence of existence, init, response and precedence
\* evaluations on one reverse index, with any activity names, the index has
\* the keys and position lists create_trace_reverse_index gave it; no key is
\* mapped to an empty list, and a verdict is the one a fresh index gives.
C11_IndexReadOnly ==
  pc # "new" =>
    /\ rev_trace = create_trace_reverse_index(trace)
    /\ DOMAIN rev_trace = Range(Names(trace))
    /\ \A k \in DOMAIN rev_trace : rev_trace[k] # <<>>
    /\ (pc = "returned" /\ op \in Constraints) =>
         result = VerdictOn(create_trace_reverse_index(trace))

\* Response(a, b) has run past its first test with b absent from the trace,
\* and b is no key of the index
C11_Witness ==
  /\ Returned("check_response_constraint")
  /\ Positions(trace, arg_a) # {}
  /\ Positions(trace, arg_b) = {}
  /\ Len(trace) > 1
  /\ arg_b \notin DOMAIN rev_trace
  /\ rev_trace = create_trace_reverse_index(trace)

\* C12: for a non-empty pattern, repeated names allowed, and count >= 1, when
\* the strict interleaved labeller returns Satisfied so does the non-strict
\* one on the same trace, pattern and count; after every prefix of the trace
\* the non-strict scan has completed at least as many occurrences as the
\* strict scan.
C12_StrictImpliesNonstrict ==
  pc = "returned" /\ op \in Interleaved /\ arg_sequence # <<>> =>
    /\ \A k \in 0..Len(trace) :
         nonstrict_interleaved_scan(trace, arg_sequence, k).count_subsequences
           >= strict_interleaved_scan(trace, arg_sequence, k).count_subsequences
    /\ op = "check_sequence_strict_order_interleaved" /\ result = Satisfied =>
         check_sequence_nonstrict_order_interleaved(trace, arg_sequence, arg_count)
           = Satisfied
    /\ op = "check_sequence_nonstrict_order_interleaved" /\ result = Unsatisfiable =>
         check_sequence_strict_order_interleaved(trace, arg_sequence, arg_count)
           = Unsatisfiable

\* The strict labeller has returned Satisfied for count 2 on a trace whose
\* pattern events are not the pattern repeated: some are out of order
C12_Witness ==
  /\ Returned("check_sequence_strict_order_interleaved")
  /\ Len(arg_sequence) = 2
  /\ arg_count = 2
  /\ result = Satisfied
  /\ \A k \in 0..Len(trace) : ~ IsRepetition(trace, arg_sequence, k)

====
